---- MODULE Spec2Model ----
(***************************************************************************)
(* A model of the SIGIL template engine: the template parser              *)
(* (template-parser.ts) and the AST evaluator of SigilEngine              *)
(* (template-engine.ts).                                                   *)
(*                                                                         *)
(* A JavaScript string is a sequence of one-character strings, so that    *)
(* slicing, scanning and case mapping are computed as the code computes   *)
(* them.  Indices passed to the string helpers are JavaScript's (0-based). *)
(***************************************************************************)
EXTENDS Integers, Sequences, FiniteSets, TLC

(***************************************************************************)
(* JavaScript string primitives                                            *)
(***************************************************************************)
LowerChars ==
  <<"a","b","c","d","e","f","g","h","i","j","k","l","m",
    "n","o","p","q","r","s","t","u","v","w","x","y","z">>

UpperChars ==
  <<"A","B","C","D","E","F","G","H","I","J","K","L","M",
    "N","O","P","Q","R","S","T","U","V","W","X","Y","Z">>

Digits == {"0","1","2","3","4","5","6","7","8","9"}

\* \s of the regular expressions (the model's strings hold no other blank)
IsSpace(c) == c = " "

\* \w of the regular expressions
WordChars ==
  Digits \cup {"_"} \cup {LowerChars[i] : i \in 1..26} \cup {UpperChars[i] : i \in 1..26}

toLowerChar(c) ==
  IF \E i \in 1..26 : UpperChars[i] = c
  THEN LowerChars[CHOOSE i \in 1..26 : UpperChars[i] = c]
  ELSE c

toUpperChar(c) ==
  IF \E i \in 1..26 : LowerChars[i] = c
  THEN UpperChars[CHOOSE i \in 1..26 : LowerChars[i] = c]
  ELSE c

toLowerCase(s) == [i \in 1..Len(s) |-> toLowerChar(s[i])]

toUpperCase(s) == [i \in 1..Len(s) |-> toUpperChar(s[i])]

\* s.slice(a, b) for 0 <= a and 0 <= b <= s.length
slice(s, a, b) == SubSeq(s, a + 1, b)

\* s.slice(a)
sliceFrom(s, a) == SubSeq(s, a + 1, Len(s))

\* s.startsWith(c) and s.endsWith(c) for a one-character c
startsWith(s, c) == Len(s) > 0 /\ s[1] = c

endsWith(s, c) == Len(s) > 0 /\ s[Len(s)] = c

\* s.endsWith(t) for a string t
endsWithStr(s, t) ==
  Len(s) >= Len(t) /\ SubSeq(s, Len(s) - Len(t) + 1, Len(s)) = t

\* s.includes(c) for a one-character c
includesChar(s, c) == \E i \in 1..Len(s) : s[i] = c

\* s.includes(t) for a string t
includes(s, t) ==
  \E i \in 0..(Len(s) - Len(t)) : SubSeq(s, i + 1, i + Len(t)) = t

\* s.indexOf(c, from): the 0-based index of the first c at or after from, or -1
indexOf(s, c, from) ==
  IF \E i \in from..(Len(s) - 1) : s[i + 1] = c
  THEN CHOOSE i \in from..(Len(s) - 1) :
         s[i + 1] = c /\ \A j \in from..(i - 1) : s[j + 1] # c
  ELSE -1

RECURSIVE trimStart(_)
trimStart(s) ==
  IF Len(s) > 0 /\ IsSpace(s[1]) THEN trimStart(Tail(s)) ELSE s

RECURSIVE trimEnd(_)
trimEnd(s) ==
  IF Len(s) > 0 /\ IsSpace(s[Len(s)])
  THEN trimEnd(SubSeq(s, 1, Len(s) - 1))
  ELSE s

\* s.trim()
trim(s) == trimEnd(trimStart(s))

\* s.split(c) for a one-character separator: empty parts are kept
RECURSIVE split(_, _)
split(s, c) ==
  LET i == indexOf(s, c, 0)
  IN IF i = -1 THEN <<s>>
     ELSE <<slice(s, 0, i)>> \o split(sliceFrom(s, i + 1), c)

\* parts.join(sep)
RECURSIVE join(_, _)
join(parts, sep) ==
  IF Len(parts) = 0 THEN <<>>
  ELSE IF Len(parts) = 1 THEN parts[1]
  ELSE parts[1] \o sep \o join(Tail(parts), sep)

\* the value of one decimal digit
digitValue(c) ==
  CASE c = "0" -> 0 [] c = "1" -> 1 [] c = "2" -> 2 [] c = "3" -> 3
    [] c = "4" -> 4 [] c = "5" -> 5 [] c = "6" -> 6 [] c = "7" -> 7
    [] c = "8" -> 8 [] c = "9" -> 9

\* parseInt(s) and Number(s) of a string of decimal digits; Number("") is 0
RECURSIVE parseInt(_)
parseInt(s) ==
  IF Len(s) = 0 THEN 0
  ELSE 10 * parseInt(SubSeq(s, 1, Len(s) - 1)) + digitValue(s[Len(s)])

digitChar(d) ==
  CASE d = 0 -> "0" [] d = 1 -> "1" [] d = 2 -> "2" [] d = 3 -> "3"
    [] d = 4 -> "4" [] d = 5 -> "5" [] d = 6 -> "6" [] d = 7 -> "7"
    [] d = 8 -> "8" [] d = 9 -> "9"

\* n.toString() of an integer
RECURSIVE natToString(_)
natToString(n) ==
  IF n < 10 THEN <<digitChar(n)>>
  ELSE natToString(n \div 10) \o <<digitChar(n % 10)>>

numToString(n) == IF n < 0 THEN <<"-">> \o natToString(-n) ELSE natToString(n)

\* the length of the longest prefix of s, from 0-based index from, whose
\* characters are all in the set cs (a greedy character-class run)
RECURSIVE runLength(_, _, _)
runLength(s, from, cs) ==
  IF from < Len(s) /\ s[from + 1] \in cs
  THEN 1 + runLength(s, from + 1, cs)
  ELSE 0

\* the same for the complement of cs
RECURSIVE runLengthNot(_, _, _)
runLengthNot(s, from, cs) ==
  IF from < Len(s) /\ s[from + 1] \notin cs
  THEN 1 + runLengthNot(s, from + 1, cs)
  ELSE 0

(***************************************************************************)
(* AST nodes (TemplateNode)                                                *)
(***************************************************************************)
TextNode(v) == [type |-> "text", value |-> v]

AndNode(ns) == [type |-> "and", nodes |-> ns]

OrNode(ns) == [type |-> "or", nodes |-> ns]

GroupNode(n) == [type |-> "group", node |-> n]

NumberRangeNode(lo, hi) == [type |-> "number_range", min |-> lo, max |-> hi]

IndefiniteArticleNode == [type |-> "indefinite_article"]

MixedNode(ns) == [type |-> "mixed", nodes |-> ns]

\* repetition: number | {min, max}; max is undefined (hasMax false) when the
\* range text holds no "-"
FixedRepetition(n) == [isRange |-> FALSE, n |-> n, min |-> 0, max |-> 0, hasMax |-> TRUE]

RangeRepetition(lo, hi, has) ==
  [isRange |-> TRUE, n |-> 0, min |-> lo, max |-> hi, hasMax |-> has]

TableNode(path, mods, opt, excl, rep) ==
  [type |-> "table", tablePath |-> path, modifiers |-> mods,
   isOptional |-> opt, exclusions |-> excl, repetition |-> rep]

(***************************************************************************)
(* template-parser.ts                                                      *)
(***************************************************************************)
capitalize == <<"c","a","p","i","t","a","l","i","z","e">>

lowercase == <<"l","o","w","e","r","c","a","s","e">>

pluralForm == <<"p","l","u","r","a","l","F","o","r","m">>

markov == <<"m","a","r","k","o","v">>

knownModifiers == {capitalize, lowercase, pluralForm, markov}

\* content.match(/^([^!*?^]+?)(?:\^(\d+))?(?:!([^*?]+))?(?:\*(\{[\d-]+\}|\d+))?(\?)?$/)
\* The pattern is anchored and each group starts with a character the group
\* before it cannot hold, so the match, when there is one, is the one found by
\* taking every run as long as it goes.  Each group operator gives the length
\* its group takes at index p: 0 when the group is absent, -1 when the group
\* starts there and cannot be completed (no match at all).
groupLength(opens, run) == IF ~opens THEN 0 ELSE IF run >= 1 THEN 1 + run ELSE -1

\* (?:\^(\d+))?
weightGroup(content, p) ==
  groupLength(p < Len(content) /\ content[p + 1] = "^",
              runLength(content, p + 1, Digits))

\* (?:!([^*?]+))?
exclusionGroup(content, p) ==
  groupLength(p < Len(content) /\ content[p + 1] = "!",
              runLengthNot(content, p + 1, {"*", "?"}))

\* \{[\d-]+\} at index p: its length, or -1
braceLength(content, p, run) ==
  IF run >= 1 /\ p + 1 + run < Len(content) /\ content[p + 1 + run + 1] = "}"
  THEN run + 2
  ELSE -1

\* (?:\*(\{[\d-]+\}|\d+))?
repetitionGroup(content, p) ==
  IF ~(p < Len(content) /\ content[p + 1] = "*") THEN 0
  ELSE IF p + 1 < Len(content) /\ content[p + 2] = "{"
  THEN (IF braceLength(content, p + 1, runLength(content, p + 2, Digits \cup {"-"})) < 0
        THEN -1
        ELSE 1 + braceLength(content, p + 1, runLength(content, p + 2, Digits \cup {"-"})))
  ELSE groupLength(TRUE, runLength(content, p + 1, Digits))

\* (\?)?
optionalGroup(content, p) ==
  IF p < Len(content) /\ content[p + 1] = "?" THEN 1 ELSE 0

NoMatch ==
  [matched |-> FALSE, corePath |-> <<>>, weight |-> <<>>,
   exclusionPart |-> <<>>, repetitionPart |-> <<>>, optional |-> FALSE]

\* the groups from the lengths found: the core path ends at p1, the weight at
\* p2, the exclusions at p3, the repetition at p4, the optional mark at p5
matchGroups(content, p1, p2, p3, p4, p5) ==
  IF p5 # Len(content) THEN NoMatch
  ELSE [matched |-> TRUE,
        corePath |-> slice(content, 0, p1),
        weight |-> slice(content, p1 + 1, p2),
        exclusionPart |-> slice(content, p2 + 1, p3),
        repetitionPart |-> slice(content, p3 + 1, p4),
        optional |-> p5 > p4]

matchOptional(content, p1, p2, p3, p4) ==
  matchGroups(content, p1, p2, p3, p4, p4 + optionalGroup(content, p4))

matchRepetition(content, p1, p2, p3, len) ==
  IF len < 0 THEN NoMatch ELSE matchOptional(content, p1, p2, p3, p3 + len)

matchExclusion(content, p1, p2, len) ==
  IF len < 0 THEN NoMatch
  ELSE matchRepetition(content, p1, p2, p2 + len, repetitionGroup(content, p2 + len))

matchWeight(content, p1, len) ==
  IF len < 0 THEN NoMatch
  ELSE matchExclusion(content, p1, p1 + len, exclusionGroup(content, p1 + len))

matchCore(content, p1) ==
  IF p1 < 1 THEN NoMatch ELSE matchWeight(content, p1, weightGroup(content, p1))

coreMatch(content) == matchCore(content, runLengthNot(content, 0, {"!", "*", "?", "^"}))

\* the while loop of parseTableReference: modifiers popped from the right end
\* of the dotted path, in the order popped
RECURSIVE gobbleModifiers(_)
gobbleModifiers(pathParts) ==
  IF Len(pathParts) > 1 /\ pathParts[Len(pathParts)] \in knownModifiers
  THEN <<pathParts[Len(pathParts)]>>
         \o gobbleModifiers(SubSeq(pathParts, 1, Len(pathParts) - 1))
  ELSE <<>>

\* tempModifiers.reverse()
reverse(s) == [i \in 1..Len(s) |-> s[Len(s) + 1 - i]]

\* parseModifiers without the reverse: the modifiers in the order popped
parseModifiersUnreversed(pathParts) == gobbleModifiers(pathParts)

\* the modifiers array of a table node, first to apply first
parseModifiers(pathParts) == reverse(gobbleModifiers(pathParts))

\* const [min, max] = range.split('-').map(Number)
rangeOfParts(parts) ==
  RangeRepetition(parseInt(parts[1]),
                  IF Len(parts) > 1 THEN parseInt(parts[2]) ELSE 0,
                  Len(parts) > 1)

\* the repetition of a table node from the text after "*" ("" when absent)
parseRepetition(repetitionPart) ==
  IF Len(repetitionPart) = 0 THEN FixedRepetition(1)
  ELSE IF startsWith(repetitionPart, "{") /\ endsWith(repetitionPart, "}")
  THEN rangeOfParts(split(slice(repetitionPart, 1, Len(repetitionPart) - 1), "-"))
  ELSE FixedRepetition(parseInt(repetitionPart))

nonEmpty(s) == Len(s) > 0

\* exclusionPart.split('!').filter(Boolean)
parseExclusions(exclusionPart) == SelectSeq(split(exclusionPart, "!"), nonEmpty)

\* the node of a reference whose content matched: pathParts is the core path
\* split on ".", modifiers the known modifiers at its end
tableOfMatch(m, pathParts, modifiers, isOptional) ==
  TableNode(join(SubSeq(pathParts, 1, Len(pathParts) - Len(modifiers)), <<".">>),
            modifiers, isOptional,
            parseExclusions(m.exclusionPart), parseRepetition(m.repetitionPart))

tableOfPath(m, pathParts, isOptional) ==
  tableOfMatch(m, pathParts, parseModifiers(pathParts), isOptional)

tableOfContent(content, m, trailingOptional) ==
  IF m.matched
  THEN tableOfPath(m, split(m.corePath, "."), m.optional \/ trailingOptional)
  ELSE TableNode(content, <<>>, trailingOptional, <<>>, FixedRepetition(1))

parseTableReference(content, trailingModifiers) ==
  tableOfContent(content, coreMatch(content), includesChar(trailingModifiers, "?"))

\* the depth after the character c
depthAfter(level, c) ==
  IF c = "{" \/ c = "[" THEN level + 1
  ELSE IF c = "}" \/ c = "]" THEN level - 1
  ELSE level

\* the scan of splitTopLevel from index i: the parts as cut, before trimming
RECURSIVE splitTopLevelFrom(_, _, _, _, _)
splitTopLevelFrom(str, sep, i, level, last) ==
  IF i >= Len(str) THEN <<sliceFrom(str, last)>>
  ELSE IF str[i + 1] = sep /\ depthAfter(level, str[i + 1]) = 0
  THEN <<slice(str, last, i)>>
         \o splitTopLevelFrom(str, sep, i + 1, depthAfter(level, str[i + 1]), i + 1)
  ELSE splitTopLevelFrom(str, sep, i + 1, depthAfter(level, str[i + 1]), last)

\* trimAndFilter without the filter(Boolean)
trimOnly(parts) == [i \in 1..Len(parts) |-> trim(parts[i])]

\* parts.map(s => s.trim()).filter(Boolean)
trimAndFilter(parts) ==
  SelectSeq([i \in 1..Len(parts) |-> trim(parts[i])], nonEmpty)

splitTopLevel(str, sep) == trimAndFilter(splitTopLevelFrom(str, sep, 0, 0, 0))

\* str.match(/^(\d+)-(\d+)$/) with d1 the length of the first run of digits
rangeMatchAt(str, d1) ==
  /\ d1 >= 1
  /\ d1 < Len(str)
  /\ str[d1 + 1] = "-"
  /\ runLength(str, d1 + 1, Digits) >= 1
  /\ d1 + 1 + runLength(str, d1 + 1, Digits) = Len(str)

numberRangeMatch(str) == rangeMatchAt(str, runLength(str, 0, Digits))

numberRangeAt(str, d1) ==
  NumberRangeNode(parseInt(slice(str, 0, d1)), parseInt(sliceFrom(str, d1 + 1)))

\* "Remove outermost braces if present"
stripBraces(t) ==
  IF startsWith(t, "{") /\ endsWith(t, "}") THEN slice(t, 1, Len(t) - 1) ELSE t

RECURSIVE parseTemplateExpression(_)

\* parseTemplateExpression after the trim and the removal of the outer braces
RECURSIVE parseParts(_, _, _)
parseParts(str, andParts, orParts) ==
  IF Len(andParts) > 1
  THEN AndNode([i \in 1..Len(andParts) |-> parseTemplateExpression(andParts[i])])
  ELSE IF Len(orParts) > 1
  THEN OrNode([i \in 1..Len(orParts) |-> parseTemplateExpression(orParts[i])])
  ELSE IF startsWith(str, "[") /\ includesChar(str, "]")
  THEN parseTableReference(slice(str, 1, indexOf(str, "]", 0)),
                           sliceFrom(str, indexOf(str, "]", 0) + 1))
  ELSE IF startsWith(str, "(") /\ endsWith(str, ")")
  THEN GroupNode(parseTemplateExpression(trim(slice(str, 1, Len(str) - 1))))
  ELSE IF startsWith(str, "{") /\ endsWith(str, "}")
  THEN parseTemplateExpression(slice(str, 1, Len(str) - 1))
  ELSE IF numberRangeMatch(str)
  THEN numberRangeAt(str, runLength(str, 0, Digits))
  ELSE IF str = <<"a">>
  THEN IndefiniteArticleNode
  ELSE TextNode(str)

parseStripped(str) == parseParts(str, splitTopLevel(str, "&"), splitTopLevel(str, "|"))

parseTemplateExpression(input) == parseStripped(stripBraces(trim(input)))

\* the scan of findBalancedPattern from index i at nesting depth: the index of
\* the closing character that brings the depth back to 0, or -1
RECURSIVE findClose(_, _, _, _, _)
findClose(tpl, i, level, openChar, closeChar) ==
  IF i >= Len(tpl) THEN -1
  ELSE IF tpl[i + 1] = openChar
  THEN findClose(tpl, i + 1, level + 1, openChar, closeChar)
  ELSE IF tpl[i + 1] = closeChar
  THEN IF level - 1 = 0 THEN i
       ELSE findClose(tpl, i + 1, level - 1, openChar, closeChar)
  ELSE findClose(tpl, i + 1, level, openChar, closeChar)

NoPattern ==
  [found |-> FALSE, start |-> 0, end |-> 0, content |-> <<>>,
   fullMatch |-> <<>>, type |-> "none"]

patternAt(tpl, openIndex, closeIndex, openChar) ==
  IF closeIndex = -1 THEN NoPattern
  ELSE [found |-> TRUE,
        start |-> openIndex,
        end |-> closeIndex + 1,
        content |-> slice(tpl, openIndex + 1, closeIndex),
        fullMatch |-> slice(tpl, openIndex, closeIndex + 1),
        type |-> IF openChar = "[" THEN "table" ELSE "inline"]

patternFrom(tpl, openIndex, openChar, closeChar) ==
  IF openIndex = -1 THEN NoPattern
  ELSE patternAt(tpl, openIndex,
                 findClose(tpl, openIndex, 0, openChar, closeChar), openChar)

findBalancedPattern(tpl, startPos, openChar, closeChar) ==
  patternFrom(tpl, indexOf(tpl, openChar, startPos), openChar, closeChar)

nearestMatch(tableMatch, inlineMatch) ==
  IF inlineMatch.found /\ (~tableMatch.found \/ inlineMatch.start < tableMatch.start)
  THEN inlineMatch
  ELSE tableMatch

findNextSigilPattern(tpl, startPos) ==
  nearestMatch(findBalancedPattern(tpl, startPos, "[", "]"),
               findBalancedPattern(tpl, startPos, "{", "}"))

parseSigilPattern(pattern) ==
  IF pattern.type = "table" THEN parseTableReference(pattern.content, <<>>)
  ELSE IF pattern.type = "inline" THEN parseTemplateExpression(pattern.fullMatch)
  ELSE TextNode(pattern.fullMatch)

RECURSIVE scanTemplate(_, _)

\* one turn of the while loop of parseCompleteTemplate with the pattern found
RECURSIVE scanPattern(_, _, _)
scanPattern(tpl, currentPos, nextPattern) ==
  IF ~nextPattern.found
  THEN <<TextNode(sliceFrom(tpl, currentPos))>>
  ELSE (IF nextPattern.start > currentPos
        THEN <<TextNode(slice(tpl, currentPos, nextPattern.start))>>
        ELSE <<>>)
       \o <<parseSigilPattern(nextPattern)>>
       \o scanTemplate(tpl, nextPattern.end)

\* the while loop of parseCompleteTemplate from currentPos: the nodes pushed
scanTemplate(tpl, currentPos) ==
  IF currentPos >= Len(tpl) THEN <<>>
  ELSE scanPattern(tpl, currentPos, findNextSigilPattern(tpl, currentPos))

nodeOfNodes(nodes) == IF Len(nodes) = 1 THEN nodes[1] ELSE MixedNode(nodes)

parseCompleteTemplate(tpl) == nodeOfNodes(scanTemplate(tpl, 0))

(***************************************************************************)
(* template-engine.ts: the helpers                                         *)
(***************************************************************************)
\* A list entry that is not a string (null, undefined): calling a string
\* method on it throws a TypeError.
Null == <<"<null>">>

\* s.lastIndexOf(c), or -1
lastIndexOf(s, c) ==
  IF \E i \in 0..(Len(s) - 1) : s[i + 1] = c
  THEN CHOOSE i \in 0..(Len(s) - 1) :
         s[i + 1] = c /\ \A j \in (i + 1)..(Len(s) - 1) : s[j + 1] # c
  ELSE -1

allIn(s, cs) == \A i \in 1..Len(s) : s[i] \in cs

\* parseFloat of a [\d.]+ text, in tenths (exact for at most one fractional
\* digit, which is all the model's stores hold); NaN when it has no digit
\* before a second "."
parseFloat(s) ==
  LET ilen == runLength(s, 0, Digits)
      hasDot == ilen < Len(s) /\ s[ilen + 1] = "."
      flen == IF hasDot THEN runLength(s, ilen + 1, Digits) ELSE 0
  IN [nan |-> ilen = 0 /\ flen = 0,
      tenths |-> 10 * parseInt(slice(s, 0, ilen))
                   + (IF flen > 0 THEN digitValue(s[ilen + 2]) ELSE 0)]

\* item.match(/^(.+?)\s*\^([\d.]+)$/): the caret is the last one of the item,
\* with at least one character before it and only digits and dots after it
weightMatch(item) ==
  LET q == lastIndexOf(item, "^")
  IN /\ q >= 1
     /\ q + 1 < Len(item)
     /\ allIn(sliceFrom(item, q + 1), Digits \cup {"."})

\* one element of parseWeightedList's result; weights are kept in tenths
parseWeightedItem(item) ==
  LET q == lastIndexOf(item, "^")
      w == parseFloat(sliceFrom(item, q + 1))
  IN IF weightMatch(item)
     THEN [value |-> trim(slice(item, 0, q)), weight |-> w.tenths, nan |-> w.nan]
     ELSE [value |-> item, weight |-> 10, nan |-> FALSE]

parseWeightedList(items) == [i \in 1..Len(items) |-> parseWeightedItem(items[i])]

RECURSIVE sumWeights(_)
sumWeights(items) ==
  IF Len(items) = 0 THEN 0 ELSE items[1].weight + sumWeights(Tail(items))

anyNaN(items) == \E i \in 1..Len(items) : items[i].nan

\* The values Math.random() * totalWeight can take, on a grid of 1/20: 0, every
\* boundary between two items and a point inside every item's interval.
RandomDraws(items) ==
  IF sumWeights(items) <= 0 THEN {0} ELSE 0..(2 * sumWeights(items) - 1)

\* walkWeighted comparing with < in place of <=
RECURSIVE walkWeightedStrict(_, _, _)
walkWeightedStrict(items, i, random) ==
  IF i > Len(items)
  THEN (IF Len(items) = 0 THEN <<>> ELSE items[Len(items)].value)
  ELSE IF random - 2 * items[i].weight < 0
  THEN items[i].value
  ELSE walkWeightedStrict(items, i + 1, random - 2 * items[i].weight)

\* the for loop of selectWeighted with random (in 1/20) left to subtract from
RECURSIVE walkWeighted(_, _, _)
walkWeighted(items, i, random) ==
  IF i > Len(items)
  THEN (IF Len(items) = 0 THEN <<>> ELSE items[Len(items)].value)
  ELSE IF random - 2 * items[i].weight <= 0
  THEN items[i].value
  ELSE walkWeighted(items, i + 1, random - 2 * items[i].weight)

\* selectWeighted for one draw of Math.random(); with a NaN total no
\* comparison succeeds and the last item is returned
selectWeighted(items, random) ==
  IF anyNaN(items)
  THEN (IF Len(items) = 0 THEN <<>> ELSE items[Len(items)].value)
  ELSE walkWeighted(items, 1, random)

Undefined == [kind |-> "undefined"]

\* the reduce of getNestedValue: a key found in a mapping gives its value;
\* anything else (a missing key, a key of a list or of a scalar) gives a
\* value that is not an array, here Undefined
RECURSIVE walkPath(_, _)
walkPath(current, keys) ==
  IF Len(keys) = 0 THEN current
  ELSE IF current.kind = "map" /\ keys[1] \in DOMAIN current.entries
  THEN walkPath(current.entries[keys[1]], Tail(keys))
  ELSE Undefined

getNestedValue(obj, path) == walkPath(obj, split(path, "."))

applyModifier(text, modifier) ==
  IF modifier = capitalize
  THEN toUpperCase(slice(text, 0, 1)) \o toLowerCase(sliceFrom(text, 1))
  ELSE IF modifier = lowercase
  THEN toLowerCase(text)
  ELSE IF modifier = pluralForm
  THEN (IF \/ endsWith(text, "s") \/ endsWithStr(text, <<"s", "h">>)
           \/ endsWithStr(text, <<"c", "h">>) \/ endsWith(text, "x")
           \/ endsWith(text, "z")
        THEN text \o <<"e", "s">>
        ELSE IF /\ endsWith(text, "y")
                /\ ~(Len(text) >= 2 /\ text[Len(text) - 1] \in {"a", "e", "i", "o", "u"})
        THEN SubSeq(text, 1, Len(text) - 1) \o <<"i", "e", "s">>
        ELSE IF endsWith(text, "f")
        THEN SubSeq(text, 1, Len(text) - 1) \o <<"v", "e", "s">>
        ELSE IF endsWithStr(text, <<"f", "e">>)
        THEN SubSeq(text, 1, Len(text) - 2) \o <<"v", "e", "s">>
        ELSE text \o <<"s">>)
  ELSE text

\* the for loop over node.modifiers
RECURSIVE applyModifiers(_, _)
applyModifiers(text, modifiers) ==
  IF Len(modifiers) = 0 THEN text
  ELSE applyModifiers(applyModifier(text, modifiers[1]), Tail(modifiers))

\* getIndefiniteArticle with a vowel test that knows lower case only
getIndefiniteArticleLowerOnly(word) ==
  IF Len(word) > 0 /\ word[1] \in {"a", "e", "i", "o", "u"}
  THEN <<"a", "n">>
  ELSE <<"a">>

getIndefiniteArticle(word) ==
  IF Len(word) > 0 /\ word[1] \in {"a", "e", "i", "o", "u", "A", "E", "I", "O", "U"}
  THEN <<"a", "n">>
  ELSE <<"a">>

\* text.replace(/\{a\}\s+(\w+)/g, ...) scanning from index i
RECURSIVE replaceArticles(_, _)
replaceArticles(text, i) ==
  IF i >= Len(text) THEN <<>>
  ELSE LET marker == i + 3 <= Len(text) /\ slice(text, i, i + 3) = <<"{", "a", "}">>
           ws == IF marker THEN runLength(text, i + 3, {" "}) ELSE 0
           wl == IF marker /\ ws >= 1
                 THEN runLength(text, i + 3 + ws, WordChars)
                 ELSE 0
           word == slice(text, i + 3 + ws, i + 3 + ws + wl)
       IN IF marker /\ ws >= 1 /\ wl >= 1
          THEN getIndefiniteArticle(word) \o <<" ">> \o word
                 \o replaceArticles(text, i + 3 + ws + wl)
          ELSE <<text[i + 1]>> \o replaceArticles(text, i + 1)

processIndefiniteArticles(text) == replaceArticles(text, 0)

\* item.replace(/ \^[\d.]+$/, '')
cleanItem(item) ==
  LET q == lastIndexOf(item, "^")
  IN IF /\ q >= 1
        /\ item[q] = " "
        /\ q + 1 < Len(item)
        /\ allIn(sliceFrom(item, q + 1), Digits \cup {"."})
     THEN slice(item, 0, q - 1)
     ELSE item

\* keepItem comparing without toLowerCase
keepItemCaseSensitive(item, exclusions) ==
  ~\E e \in 1..Len(exclusions) : includes(cleanItem(item), exclusions[e])

\* the callback of list.filter in selectFromTable: whether item is kept
keepItem(item, exclusions) ==
  ~\E e \in 1..Len(exclusions) :
     includes(toLowerCase(cleanItem(item)), toLowerCase(exclusions[e]))

\* the list left by the exclusions (every entry is a string)
filterList(list, exclusions) ==
  IF Len(exclusions) > 0
  THEN SelectSeq(list, LAMBDA item : keepItem(item, exclusions))
  ELSE list

(***************************************************************************)
(* The table stores and the templates the engine is run on                 *)
(***************************************************************************)
List(items) == [kind |-> "list", items |-> items]

Map(entries) == [kind |-> "map", entries |-> entries]

Scalar == [kind |-> "scalar"]

Ref(path) == <<"[">> \o path \o <<"]">>

\* the longest chain of single-entry tables a store is built with
MaxChain == 3

\* the largest maxDepth option an engine is constructed with
MaxDepthOption == 3

ChainName(i) == <<"l", digitChar(i)>>

Deep == <<"d", "e", "e", "p">>

\* level1 = ["[level2]"], ..., level<n> = ["deep"]
StoreChain(n) ==
  Map([k \in {ChainName(i) : i \in 1..n} |->
        LET i == CHOOSE j \in 1..n : ChainName(j) = k
        IN List(<<IF i < n THEN Ref(ChainName(i + 1)) ELSE Deep>>)])

StoreMain ==
  Map(  (<<"a">> :> List(<< <<"x">> >>))
     @@ (<<"b">> :> List(<< <<"y">> >>))
     @@ (<<"t">> :> List(<< <<"T", "E", "S", "T">> >>))
     @@ (<<"e">> :> List(<< <<"a", "x">>, <<"b", "X", " ", "^", "2">>, <<"c">> >>))
     @@ (<<"p">> :> List(<< <<"x">>, <<"y">> >>))
     @@ (<<"s">> :> Scalar)
     @@ (<<"w">> :> Map(<<"m">> :> List(<< <<"z">> >>)))
     @@ (<<"o">> :> List(<<>>))
     @@ (<<"k">> :> List(<< Ref(<<"o">>) >>)) )

\* mutually referential and self-referential tables, and lists holding an
\* entry that is not a string
StoreCyclic ==
  Map(  (<<"a">> :> List(<< Ref(<<"b">>) >>))
     @@ (<<"b">> :> List(<< Ref(<<"a">>) >>))
     @@ (<<"c">> :> List(<< <<"x">> \o Ref(<<"c">>) >>))
     @@ (<<"n">> :> List(<< Null >>))
     @@ (<<"e">> :> List(<< <<"x">>, Null >>))
     @@ (<<"f">> :> List(<< Ref(<<"n">>) >>)) )

Stores == {StoreMain, StoreCyclic} \cup {StoreChain(n) : n \in 1..MaxChain}

MaxDepthOptions == 0..MaxDepthOption

T_a == <<"[", "a", "]">>

T_andTrailing == <<"{", "[", "a", "]", "&", "[", "b", "]", "?", "}">>

T_andInside == <<"{", "[", "a", "]", "&", "[", "b", "?", "]", "}">>

T_or == <<"{", "[", "a", "]", "|", "[", "b", "]", "}">>

T_missing == <<"A", " ", "[", "m", "i", "s", "s", "i", "n", "g", "]", " ", "B">>

T_scalar == <<"A", " ", "[", "s", "]", " ", "B">>

T_allExcluded == <<"A", " ", "[", "a", "!", "x", "]", " ", "B">>

T_excl == <<"[", "e", "!", "x", "]">>

T_exclRep == <<"[", "e", "!", "x", "*", "2", "]">>

T_exclOr == <<"{", "[", "e", "!", "x", "]", "|", "[", "e", "!", "c", "]", "}">>

T_repRange == <<"[", "p", "*", "{", "2", "-", "4", "}", "]">>

T_chain == Ref(ChainName(1))

T_lowerCap == Ref(<<"t", ".">> \o lowercase \o <<".">> \o capitalize)

T_capLower == Ref(<<"t", ".">> \o capitalize \o <<".">> \o lowercase)

T_null == <<"[", "n", "]">>

T_nested == <<"[", "w", ".", "m", "]">>

T_optional == <<"[", "a", "?", "]">>

T_group == <<"{", "(", "[", "a", "]", ")", "}">>

T_range == <<"{", "1", "-", "3", "}">>

T_article == <<"{", "a", "}", " ", "[", "e", "]">>

T_andNull == <<"x", "{", "[", "a", "]", "&", "[", "n", "]", "}">>
\* a reference whose selected value holds a reference that throws
T_nestedNull == <<"[", "f", "]">>

MalformedTemplates ==
  { <<>>, <<" ">>, <<"[">>, <<"]">>, <<"[", "a">>, <<"a", "]">>,
    <<"[", "a", "]", "[", "b">>, <<"[", "a", "|", "b">>, <<"[", "a", "?">>,
    <<"[", "a", "|", "b", "&", "c", "?", "]">>, <<"{", "[", "a", "]", "&", "}">>,
    <<"[", "w", ".", "[", "a", "]", "]">>, <<"}", "{">>, <<"[", "]">>,
    <<"{", "[", "a", "]", "|", "[", "b", "}">> }

BaseTemplates ==
  { T_a, T_andTrailing, T_andInside, T_or, T_missing, T_scalar, T_allExcluded,
    T_excl, T_exclRep, T_exclOr, T_repRange, T_chain, T_lowerCap, T_capLower,
    T_null, T_nested, T_optional, T_group, T_range, T_article, T_andNull }
    \cup MalformedTemplates

Quoted(q, str) == <<q>> \o str \o <<q>>

QuoteChars == {"\"", "'"}

\* the strings a quoted literal may hold: no embedded quote of either kind
QuotedTemplates == {Quoted(q, str) : q \in QuoteChars, str \in BaseTemplates}

\* templates with the {a} marker before a literal word
T_articleVowel == <<"{", "a", "}", " ", "a", "p", "p", "l", "e">>

T_articleConsonant == <<"{", "a", "}", " ", "s", "w", "o", "r", "d">>

T_articleUpper == <<"{", "a", "}", " ", "O", "x">>

ArticleTemplates == {T_article, T_articleVowel, T_articleConsonant, T_articleUpper}

\* the largest number written in a number range
MaxNumber == 11

\* "{N-M}"
NumberRange(n, m) == <<"{">> \o natToString(n) \o <<"-">> \o natToString(m) \o <<"}">>

NumberRangeTemplates == {NumberRange(n, m) : n, m \in 0..MaxNumber}

\* references with the markov modifier
T_markov == <<"[", "p", ".", "m", "a", "r", "k", "o", "v", "]">>

T_markovRep == <<"[", "p", ".", "m", "a", "r", "k", "o", "v", "*", "2", "]">>

MarkovTemplates == {T_markov, T_markovRep}

\* the clauses of T_exclRep with the repetition written first
T_repExcl == <<"[", "e", "*", "2", "!", "x", "]">>

\* a modifier written after an exclusion clause
T_exclMod == <<"[", "e", "!", "x", ".", "c", "a", "p", "i", "t", "a", "l", "i", "z", "e", "]">>

\* an optional reference inside an Or, and inside a Group, that is an
\* operand of an And
T_andOrOptional == <<"{", "[", "a", "]", "&", "{", "[", "b", "]", "|", "[", "t", "?", "]", "}", "}">>

T_andGroupOptional == <<"{", "[", "a", "]", "&", "(", "[", "t", "?", "]", ")", "}">>

NestedOptionalTemplates == {T_andOrOptional, T_andGroupOptional}

\* an optional reference with a repetition
T_repOptional == <<"[", "p", "*", "3", "?", "]">>

\* a repetition over a table whose entry resolves to the empty string
T_repEmpty == <<"[", "k", "*", "2", "]">>

Templates ==
  BaseTemplates \cup QuotedTemplates \cup ArticleTemplates \cup NumberRangeTemplates
    \cup MarkovTemplates \cup {T_repExcl, T_exclMod} \cup NestedOptionalTemplates
    \cup {T_repOptional, T_repEmpty, T_nestedNull}

(***************************************************************************)
(* SigilEngine: the state                                                  *)
(***************************************************************************)
\* malformed templates: every string of sigil characters up to a length
MaxFuzzLen == 4

FuzzAlphabet == {"[", "]", "{", "}", "&", "|", "?", "n"}

FuzzTemplates == UNION {[1..n -> FuzzAlphabet] : n \in 0..MaxFuzzLen}

\* the strings held by the lists of a store
RECURSIVE itemsOf(_)
itemsOf(v) ==
  IF v.kind = "list" THEN {v.items[i] : i \in 1..Len(v.items)} \ {Null}
  ELSE IF v.kind = "map" THEN UNION {itemsOf(v.entries[k]) : k \in DOMAIN v.entries}
  ELSE {}

\* every string processTemplate is called with: the templates given to
\* generate and the values of the items selectFromTable returns
ProcessedTemplates ==
  Templates \cup FuzzTemplates
    \cup {parseWeightedItem(item).value : item \in UNION {itemsOf(store) : store \in Stores}}

\* const parsed = parseCompleteTemplate(template), tabulated
parsed == [tpl \in ProcessedTemplates |-> parseCompleteTemplate(tpl)] @@ <<>>

VARIABLES
  openFiles,  \* editorStore.openFiles: the tabs in the order of the Map
  activeTabId, \* editorStore.activeTabId
  dataObjects, \* the parsed documents handed to mergeLists
  seed,       \* this.options.seed
  outputs,    \* the calls made on an engine built earlier with the same
              \* store and options, each with what it returned
  lists,      \* this.lists, the table store given to the constructor
  maxDepth,   \* this.options.maxDepth (0 stands for a falsy option)
  depth,      \* this.depth
  pc,         \* "idle" between calls, "running" inside generate, then "done"
              \* (generate returned) or "threw" (an exception left generate)
  template,   \* the argument of the generate call in progress or last made
  stack,      \* the call stack of the generate call, innermost frame last
  ret,        \* what the frame that just ended returned or threw
  result,     \* what the last generate call returned
  lookups     \* the table paths looked up since generate was called

vars == <<openFiles, activeTabId, dataObjects, seed, outputs, lists, maxDepth, depth, pc, template, stack, ret, result, lookups>>

NoReturn == [kind |-> "none", v |-> <<>>]

\* activeTabId = null
NullId == 0

Value(v) == [kind |-> "value", v |-> v]

Thrown == [kind |-> "thrown", v |-> <<>>]

\* frames: a call of processTemplate, a call of evaluateTemplateNode about to
\* run, the map over the children of an and/mixed node, the loop of a table node
ProcessTemplateFrame(tpl) == [k |-> "processTemplate", template |-> tpl, at |-> "entry"]

EvalFrame(node) == [k |-> "evaluate", node |-> node]

ChildrenFrame(node) == [k |-> "children", node |-> node, i |-> 0, results |-> <<>>]

TableFrame(node, count) ==
  [k |-> "table", node |-> node, count |-> count, i |-> 0, results |-> <<>>,
   at |-> "loop", item |-> <<>>]

Top == stack[Len(stack)]

Pop == SubSeq(stack, 1, Len(stack) - 1)

Push(f) == Append(stack, f)

ReplaceTop(f) == Append(Pop, f)

Running == pc = "running" /\ Len(stack) > 0

\* this.options.maxDepth || 10
DefaultMaxDepth == 10

EffectiveMaxDepth == IF maxDepth = 0 THEN DefaultMaxDepth ELSE maxDepth

\* options.seed left out
NoSeed == <<"<undefined>">>

Seeds == {NoSeed, <<"s">>}

Init ==
  /\ openFiles = <<>>
  /\ activeTabId = NullId
  /\ dataObjects = <<>>
  /\ seed \in Seeds
  /\ outputs = <<>>
  /\ lists \in Stores
  /\ maxDepth \in MaxDepthOptions
  /\ depth = 0
  /\ pc = "idle"
  /\ template = <<>>
  /\ stack = <<>>
  /\ ret = NoReturn
  /\ result = <<>>
  /\ lookups = <<>>

(***************************************************************************)
(* SigilEngine: generate, processTemplate and evaluateTemplateNode         *)
(***************************************************************************)
\* generate(template): reset the depth and call processTemplate
GenerateFrom(templates) ==
  /\ pc = "idle"
  /\ \E t \in templates :
       /\ template' = t
       /\ stack' = <<ProcessTemplateFrame(t)>>
  /\ depth' = 0
  /\ pc' = "running"
  /\ ret' = NoReturn
  /\ result' = <<>>
  /\ lookups' = <<>>
  /\ UNCHANGED <<openFiles, activeTabId, dataObjects, seed, outputs, lists, maxDepth>>

Generate == GenerateFrom(Templates)

\* isQuoted knowing double quotes only
isQuotedDoubleOnly(tpl) == startsWith(tpl, "\"") /\ endsWith(tpl, "\"")

isQuoted(tpl) ==
  \/ startsWith(tpl, "\"") /\ endsWith(tpl, "\"")
  \/ startsWith(tpl, "'") /\ endsWith(tpl, "'")

\* atMaxDepth with the guard removed
atMaxDepthNever == FALSE

\* atMaxDepth with the guard two levels early
atMaxDepthEarly == depth + 2 >= EffectiveMaxDepth

atMaxDepth == depth >= EffectiveMaxDepth

\* processTemplate up to the call of evaluateTemplateNode: the depth guard,
\* the quoted literal, depth++ and the parse
ProcessTemplateEnter ==
  /\ Running
  /\ Top.k = "processTemplate" /\ Top.at = "entry"
  /\ IF atMaxDepth
     THEN /\ stack' = Pop
          /\ ret' = Value(Top.template)
          /\ depth' = depth
     ELSE IF isQuoted(Top.template)
     THEN /\ stack' = Pop
          /\ ret' = Value(slice(Top.template, 1, Len(Top.template) - 1))
          /\ depth' = depth
     ELSE /\ depth' = depth + 1
          /\ stack' = Append(ReplaceTop([Top EXCEPT !.at = "evaluating"]),
                             EvalFrame(parsed[Top.template]))
          /\ ret' = NoReturn
  /\ UNCHANGED <<openFiles, activeTabId, dataObjects, seed, outputs, lists, maxDepth, pc, template, result, lookups>>

\* ProcessTemplateReturn with this.depth = 0 in place of this.depth--
ProcessTemplateReturnResetting ==
  /\ Running
  /\ Top.k = "processTemplate" /\ Top.at = "evaluating"
  /\ ret.kind = "value"
  /\ depth' = 0
  /\ stack' = Pop
  /\ ret' = Value(processIndefiniteArticles(ret.v))
  /\ UNCHANGED <<openFiles, activeTabId, dataObjects, seed, outputs, lists, maxDepth, pc, template, result, lookups>>

\* the rest of the try block: the article pass, depth-- and the return
ProcessTemplateReturn ==
  /\ Running
  /\ Top.k = "processTemplate" /\ Top.at = "evaluating"
  /\ ret.kind = "value"
  /\ depth' = depth - 1
  /\ stack' = Pop
  /\ ret' = Value(processIndefiniteArticles(ret.v))
  /\ UNCHANGED <<openFiles, activeTabId, dataObjects, seed, outputs, lists, maxDepth, pc, template, result, lookups>>

\* ProcessTemplateCatch as try/finally: depth-- and the exception goes on
\* ProcessTemplateCatch without the decrement of the catch block
ProcessTemplateCatchKeepingDepth ==
  /\ Running
  /\ Top.k = "processTemplate" /\ Top.at = "evaluating"
  /\ ret.kind = "thrown"
  /\ depth' = depth
  /\ stack' = Pop
  /\ ret' = Value(Top.template)
  /\ UNCHANGED <<openFiles, activeTabId, dataObjects, seed, outputs, lists, maxDepth, pc, template, result, lookups>>

\* ProcessTemplateCatch with the exception passed on to the caller
ProcessTemplateRethrow ==
  /\ Running
  /\ Top.k = "processTemplate" /\ Top.at = "evaluating"
  /\ ret.kind = "thrown"
  /\ depth' = depth - 1
  /\ stack' = Pop
  /\ UNCHANGED <<openFiles, activeTabId, dataObjects, seed, outputs, lists, maxDepth, pc, template, ret, result, lookups>>

\* the catch block: depth-- and the template returned as it is
ProcessTemplateCatch ==
  /\ Running
  /\ Top.k = "processTemplate" /\ Top.at = "evaluating"
  /\ ret.kind = "thrown"
  /\ depth' = depth - 1
  /\ stack' = Pop
  /\ ret' = Value(Top.template)
  /\ UNCHANGED <<openFiles, activeTabId, dataObjects, seed, outputs, lists, maxDepth, pc, template, result, lookups>>

\* Math.floor(Math.random() * n): for n > 0 any of 0..n-1; for n <= 0 the
\* product lies in (n, 0] and its floor in n..0
RandomInt(n) == IF n > 0 THEN 0..(n - 1) ELSE n..0

\* case 'text', case 'indefinite_article' and the default branch
EvalLeaf ==
  /\ Running
  /\ Top.k = "evaluate"
  /\ Top.node.type \notin {"table", "and", "or", "group", "number_range", "mixed"}
  /\ stack' = Pop
  /\ ret' = Value(IF Top.node.type = "text" THEN Top.node.value
                  ELSE IF Top.node.type = "indefinite_article" THEN <<"{", "a", "}">>
                  ELSE <<>>)
  /\ UNCHANGED <<openFiles, activeTabId, dataObjects, seed, outputs, lists, maxDepth, depth, pc, template, result, lookups>>

\* EvalNumberRange with Math.round in place of Math.floor
EvalNumberRangeRounded ==
  /\ Running
  /\ Top.k = "evaluate" /\ Top.node.type = "number_range"
  /\ \E r \in 0..(Top.node.max - Top.node.min + 1) :
       ret' = Value(numToString(r + Top.node.min))
  /\ stack' = Pop
  /\ UNCHANGED <<openFiles, activeTabId, dataObjects, seed, outputs, lists, maxDepth, depth, pc, template, result, lookups>>

\* case 'number_range'
EvalNumberRange ==
  /\ Running
  /\ Top.k = "evaluate" /\ Top.node.type = "number_range"
  /\ \E r \in RandomInt(Top.node.max - Top.node.min + 1) :
       ret' = Value(numToString(r + Top.node.min))
  /\ stack' = Pop
  /\ UNCHANGED <<openFiles, activeTabId, dataObjects, seed, outputs, lists, maxDepth, depth, pc, template, result, lookups>>

\* case 'group': the child is evaluated in its place
EvalGroup ==
  /\ Running
  /\ Top.k = "evaluate" /\ Top.node.type = "group"
  /\ stack' = ReplaceTop(EvalFrame(Top.node.node))
  /\ UNCHANGED <<openFiles, activeTabId, dataObjects, seed, outputs, lists, maxDepth, depth, pc, template, ret, result, lookups>>

\* EvalOr evaluating every child, as case 'mixed' does
EvalOrEveryChild ==
  /\ Running
  /\ Top.k = "evaluate" /\ Top.node.type = "or"
  /\ stack' = ReplaceTop(ChildrenFrame(MixedNode(Top.node.nodes)))
  /\ UNCHANGED <<openFiles, activeTabId, dataObjects, seed, outputs, lists, maxDepth, depth, pc, template, ret, result, lookups>>

\* case 'or': one child, drawn by Math.floor(Math.random() * length), is
\* evaluated in its place
EvalOr ==
  /\ Running
  /\ Top.k = "evaluate" /\ Top.node.type = "or"
  /\ \E c \in RandomInt(Len(Top.node.nodes)) :
       stack' = ReplaceTop(EvalFrame(Top.node.nodes[c + 1]))
  /\ UNCHANGED <<openFiles, activeTabId, dataObjects, seed, outputs, lists, maxDepth, depth, pc, template, ret, result, lookups>>

\* case 'and' and case 'mixed': node.nodes.map(...) starts
EvalChildren ==
  /\ Running
  /\ Top.k = "evaluate" /\ Top.node.type \in {"and", "mixed"}
  /\ stack' = ReplaceTop(ChildrenFrame(Top.node))
  /\ UNCHANGED <<openFiles, activeTabId, dataObjects, seed, outputs, lists, maxDepth, depth, pc, template, ret, result, lookups>>

\* childToEvaluate without the override of isOptional
childToEvaluateAsParsed(node, n) == n

\* a node with isOptional forced to false on every table node in it
RECURSIVE required(_)
required(n) ==
  IF n.type = "table" THEN [n EXCEPT !.isOptional = FALSE]
  ELSE IF n.type \in {"and", "or", "mixed"}
  THEN [n EXCEPT !.nodes = [i \in 1..Len(n.nodes) |-> required(n.nodes[i])]]
  ELSE IF n.type = "group" THEN [n EXCEPT !.node = required(n.node)]
  ELSE n

\* childToEvaluate with the override reaching every table node below the and
childToEvaluateDeep(node, n) == IF node.type = "and" THEN required(n) ELSE n

\* the node an and/mixed node evaluates for its child n: under 'and' a table
\* child is copied with isOptional forced to false
childToEvaluate(node, n) ==
  IF node.type = "and" /\ n.type = "table"
  THEN [n EXCEPT !.isOptional = FALSE]
  ELSE n

\* one callback of the map: evaluate the next child; after the last one, join('')
ChildrenStep ==
  /\ Running
  /\ Top.k = "children"
  /\ ret.kind = "none"
  /\ IF Top.i < Len(Top.node.nodes)
     THEN /\ stack' = Push(EvalFrame(childToEvaluate(Top.node, Top.node.nodes[Top.i + 1])))
          /\ ret' = ret
     ELSE /\ stack' = Pop
          /\ ret' = Value(join(Top.results, <<>>))
  /\ UNCHANGED <<openFiles, activeTabId, dataObjects, seed, outputs, lists, maxDepth, depth, pc, template, result, lookups>>

\* the child's result is kept
ChildrenReturn ==
  /\ Running
  /\ Top.k = "children"
  /\ ret.kind = "value"
  /\ stack' = ReplaceTop([Top EXCEPT !.i = @ + 1, !.results = Append(@, ret.v)])
  /\ ret' = NoReturn
  /\ UNCHANGED <<openFiles, activeTabId, dataObjects, seed, outputs, lists, maxDepth, depth, pc, template, result, lookups>>

\* RepetitionCounts with max - min + 2 in place of max - min + 1
RepetitionCountsOneMore(repetition) ==
  IF ~repetition.isRange THEN {repetition.n}
  ELSE IF ~repetition.hasMax THEN {0}
  ELSE {r + repetition.min : r \in RandomInt(repetition.max - repetition.min + 2)}

\* the repetition counts a table node can draw; a range with no max gives NaN,
\* for which the loop condition i < NaN fails at once
RepetitionCounts(repetition) ==
  IF ~repetition.isRange THEN {repetition.n}
  ELSE IF ~repetition.hasMax THEN {0}
  ELSE {r + repetition.min : r \in RandomInt(repetition.max - repetition.min + 1)}

\* EvalTable with the coin of an optional reference flipped in every
\* iteration: any number of the iterations is left
EvalTablePerIteration ==
  /\ Running
  /\ Top.k = "evaluate" /\ Top.node.type = "table"
  /\ \E count \in RepetitionCounts(Top.node.repetition) :
       \E kept \in {c \in 0..count : c = count \/ Top.node.isOptional} :
          stack' = ReplaceTop(TableFrame(Top.node, kept))
  /\ ret' = NoReturn
  /\ UNCHANGED <<openFiles, activeTabId, dataObjects, seed, outputs, lists, maxDepth, depth, pc, template, result, lookups>>

\* case 'table' up to the loop: the optional coin and the repetition count
EvalTable ==
  /\ Running
  /\ Top.k = "evaluate" /\ Top.node.type = "table"
  /\ \E skip \in {s \in BOOLEAN : s => Top.node.isOptional},
        count \in RepetitionCounts(Top.node.repetition) :
       IF skip
       THEN /\ stack' = Pop
            /\ ret' = Value(<<>>)
       ELSE /\ stack' = ReplaceTop(TableFrame(Top.node, count))
            /\ ret' = NoReturn
  /\ UNCHANGED <<openFiles, activeTabId, dataObjects, seed, outputs, lists, maxDepth, depth, pc, template, result, lookups>>

\* selectWeighted(weightedItems) for every draw of Math.random()
selectFromWeighted(weightedItems) ==
  {Value(selectWeighted(weightedItems, r)) : r \in RandomDraws(weightedItems)}

\* selectFromTable once the exclusions are filtered out
selectFromFiltered(filteredList) ==
  IF Len(filteredList) = 0 THEN {Value(<<>>)}
  ELSE UNION {selectFromWeighted(weightedItems) :
                weightedItems \in {parseWeightedList(filteredList)}}

\* selectFromTable once the table is looked up.  A list that holds an entry
\* that is not a string makes item.replace (with exclusions) or item.match
\* (without) throw.
selectFromList(list, exclusions) ==
  IF list.kind # "list" THEN {Value(<<>>)}
  ELSE IF \E i \in 1..Len(list.items) : list.items[i] = Null THEN {Thrown}
  ELSE UNION {selectFromFiltered(filteredList) :
                filteredList \in {filterList(list.items, exclusions)}}

\* selectFromTable without the Array.isArray guard: what is not a list throws
selectFromTableUnguarded(tablePath, exclusions) ==
  UNION {IF list.kind # "list" THEN {Thrown} ELSE selectFromList(list, exclusions) :
           list \in {getNestedValue(lists, tablePath)}}

\* selectFromTable(tablePath, exclusions): everything it can do, return a
\* string (Value) or throw (Thrown)
selectFromTable(tablePath, exclusions) ==
  UNION {selectFromList(list, exclusions) :
           list \in {getNestedValue(lists, tablePath)}}

\* this.lists after a selectFromTable that filtered the table itself
storeAfterSelectInPlace(tablePath, exclusions) ==
  IF /\ tablePath \in DOMAIN lists.entries
     /\ lists.entries[tablePath].kind = "list"
     /\ \A i \in 1..Len(lists.entries[tablePath].items) :
          lists.entries[tablePath].items[i] # Null
  THEN [lists EXCEPT !.entries[tablePath] = List(filterList(@.items, exclusions))]
  ELSE lists

\* this.lists after selectFromTable: list.filter and the map of
\* parseWeightedList build new arrays, and the table is left as it was
storeAfterSelect(tablePath, exclusions) == lists

\* one iteration of the loop of case 'table': select an item and, when it is
\* not empty, call processTemplate on it; after the last one, join(', ')
TableStep ==
  /\ Running
  /\ Top.k = "table" /\ Top.at = "loop"
  /\ IF Top.i < Top.count
     THEN /\ lookups' = Append(lookups, Top.node.tablePath)
          /\ lists' = storeAfterSelect(Top.node.tablePath, Top.node.exclusions)
          /\ \E selected \in selectFromTable(Top.node.tablePath, Top.node.exclusions) :
               IF selected.kind = "thrown"
               THEN /\ stack' = Pop
                    /\ ret' = Thrown
               ELSE /\ ret' = NoReturn
                    /\ IF Len(selected.v) > 0
                       THEN stack' = Append(ReplaceTop([Top EXCEPT !.at = "resolving",
                                                                   !.item = selected.v]),
                                            ProcessTemplateFrame(selected.v))
                       ELSE stack' = ReplaceTop([Top EXCEPT !.i = @ + 1])
     ELSE /\ stack' = Pop
          /\ ret' = Value(join(Top.results, <<",", " ">>))
          /\ lookups' = lookups
          /\ lists' = lists
  /\ UNCHANGED <<openFiles, activeTabId, dataObjects, seed, outputs, maxDepth, depth, pc, template, result>>

\* processTemplate(item) has returned: the modifiers are applied and the
\* result pushed
TableReturn ==
  /\ Running
  /\ Top.k = "table" /\ Top.at = "resolving"
  /\ ret.kind = "value"
  /\ stack' = ReplaceTop([Top EXCEPT !.at = "loop",
                                     !.i = @ + 1,
                                     !.results = Append(@, applyModifiers(ret.v, Top.node.modifiers))])
  /\ ret' = NoReturn
  /\ UNCHANGED <<openFiles, activeTabId, dataObjects, seed, outputs, lists, maxDepth, depth, pc, template, result, lookups>>

\* an exception leaves a frame of evaluateTemplateNode, which has no handler
Unwind ==
  /\ Running
  /\ ret.kind = "thrown"
  /\ Top.k # "processTemplate"
  /\ stack' = Pop
  /\ UNCHANGED <<openFiles, activeTabId, dataObjects, seed, outputs, lists, maxDepth, depth, pc, template, ret, result, lookups>>

\* generate returns what processTemplate returned, or the exception leaves it
Return ==
  /\ pc = "running"
  /\ Len(stack) = 0
  /\ pc' = IF ret.kind = "value" THEN "done" ELSE "threw"
  /\ result' = IF ret.kind = "value" THEN ret.v ELSE result
  /\ UNCHANGED <<openFiles, activeTabId, dataObjects, seed, outputs, lists, maxDepth, depth, template, stack, ret, lookups>>

\* the caller has taken the result: the engine, with the fields it keeps
\* (lists, options, depth), is ready for the next call of generate
Release ==
  /\ pc \in {"done", "threw"}
  /\ pc' = "idle"
  /\ template' = <<>>
  /\ ret' = NoReturn
  /\ result' = <<>>
  /\ lookups' = <<>>
  /\ UNCHANGED <<openFiles, activeTabId, dataObjects, seed, outputs, lists, maxDepth, depth, stack>>

Step ==
  \/ ProcessTemplateEnter
  \/ ProcessTemplateReturn
  \/ ProcessTemplateCatch
  \/ EvalLeaf
  \/ EvalNumberRange
  \/ EvalGroup
  \/ EvalOr
  \/ EvalChildren
  \/ ChildrenStep
  \/ ChildrenReturn
  \/ EvalTable
  \/ TableStep
  \/ TableReturn
  \/ Unwind
  \/ Return

Next == Generate \/ Step \/ Release

Spec == Init /\ [][Next]_vars

\* generate is synchronous: once called it runs to its return without waiting
\* for anything, so a step that can be taken is taken
SpecLive == Init /\ [][Next]_vars /\ WF_vars(Step)

(***************************************************************************)
(* The engine on every malformed template                                  *)
(***************************************************************************)
InitFuzz ==
  /\ openFiles = <<>>
  /\ activeTabId = NullId
  /\ dataObjects = <<>>
  /\ seed \in Seeds
  /\ outputs = <<>>
  /\ lists \in {StoreMain, StoreCyclic}
  /\ maxDepth \in {0, 1}
  /\ depth = 0
  /\ pc = "idle"
  /\ template = <<>>
  /\ stack = <<>>
  /\ ret = NoReturn
  /\ result = <<>>
  /\ lookups = <<>>

GenerateFuzz == GenerateFrom(Templates \cup FuzzTemplates)

NextFuzz == GenerateFuzz \/ Step \/ Release

SpecFuzz == InitFuzz /\ [][NextFuzz]_vars

(***************************************************************************)
(* selectWeighted(parseWeightedList(list)) on every list of weighted       *)
(* entries up to a length                                                  *)
(***************************************************************************)
MaxItems == 3

\* entries with no weight, a zero weight, a positive weight and a weight
\* that parseFloat cannot read
WeightedEntries == {<<"p">>, <<"q", " ", "^", "0">>, <<"r", " ", "^", "2">>, <<"s", " ", "^", "0">>, <<"t", " ", "^", ".">>}

WeightedLists == UNION {[1..n -> WeightedEntries] : n \in 0..MaxItems}

WeightedTable == lists.entries[<<"z">>].items

InitWeighted ==
  /\ openFiles = <<>>
  /\ activeTabId = NullId
  /\ dataObjects = <<>>
  /\ seed = NoSeed
  /\ outputs = <<>>
  /\ lists \in {Map(<<"z">> :> List(list)) : list \in WeightedLists}
  /\ maxDepth = 0
  /\ depth = 0
  /\ pc = "idle"
  /\ template = <<>>
  /\ stack = <<>>
  /\ ret = NoReturn
  /\ result = <<>>
  /\ lookups = <<>>

\* selectWeighted(parseWeightedList(list)) for one draw of Math.random()
SelectWeightedCall ==
  /\ pc = "idle"
  /\ \E weightedItems \in {parseWeightedList(WeightedTable)} :
       \E r \in RandomDraws(weightedItems) :
         result' = selectWeighted(weightedItems, r)
  /\ pc' = "done"
  /\ UNCHANGED <<openFiles, activeTabId, dataObjects, seed, outputs, lists, maxDepth, depth, template, stack, ret, lookups>>

NextWeighted == SelectWeightedCall \/ Release

SpecWeighted == InitWeighted /\ [][NextWeighted]_vars

(***************************************************************************)
(* The editor store: file tabs and the active tab                          *)
(***************************************************************************)
\* the most tabs open at once
MaxOpenFiles == 2

\* the ids createNewFile and openFile draw (Date.now() and Math.random())
Ids == 1..MaxOpenFiles

\* the contents of a file: empty or not
Contents == {<<>>, <<"A">>}

\* a FileTab.  The field saved is not in the code: it records the content
\* the tab had when it was opened or last saved.  name and filePath are
\* left out.
FileTab(id, content, isNew) ==
  [id |-> id, content |-> content, isDirty |-> FALSE, isNew |-> isNew, saved |-> content]

openIds == {openFiles[i].id : i \in 1..Len(openFiles)}

\* files.findIndex(f => f.id === id)
findIndex(files, id) ==
  IF \E i \in 1..Len(files) : files[i].id = id
  THEN (CHOOSE i \in 1..Len(files) : files[i].id = id) - 1
  ELSE -1

\* newMap.set(id, fileTab) for an id that is new
NewTab(fileTab) ==
  /\ Len(openFiles) < MaxOpenFiles
  /\ fileTab.id \notin openIds
  /\ openFiles' = Append(openFiles, fileTab)
  /\ activeTabId' = fileTab.id

EditorFrame ==
  UNCHANGED <<dataObjects, seed, outputs, lists, maxDepth, depth, pc, template, stack,
              ret, result, lookups>>

CreateNewFile ==
  /\ \E id \in Ids : NewTab(FileTab(id, <<>>, TRUE))
  /\ EditorFrame

OpenFile ==
  /\ \E id \in Ids, content \in Contents : NewTab(FileTab(id, content, FALSE))
  /\ EditorFrame

\* activeAfterClose leaving activeTabId as it is
activeAfterCloseKept(files, id) == activeTabId

\* activeTabId after closeFile(id) has left the tabs files
activeAfterClose(files, id) ==
  IF activeTabId = id
  THEN (IF Len(files) > 0 THEN files[1].id ELSE NullId)
  ELSE activeTabId

\* closeFile(id)
closeFile(id) ==
  IF id \notin openIds
  THEN UNCHANGED <<openFiles, activeTabId>>
  ELSE /\ openFiles' = SelectSeq(openFiles, LAMBDA f : f.id # id)
       /\ activeTabId' = activeAfterClose(SelectSeq(openFiles, LAMBDA f : f.id # id), id)

CloseFile ==
  /\ \E id \in Ids : closeFile(id)
  /\ EditorFrame

CloseActiveTab ==
  /\ IF activeTabId = NullId THEN UNCHANGED <<openFiles, activeTabId>>
     ELSE closeFile(activeTabId)
  /\ EditorFrame

\* the tab updateFileContent(id, content) leaves
updateFileContent(file, content) ==
  [file EXCEPT !.content = content,
               !.isDirty = content # (IF file.isNew THEN <<>> ELSE file.content)]

\* the tab markFileSaved(id) leaves
markFileSaved(file) ==
  [file EXCEPT !.isDirty = FALSE, !.isNew = FALSE, !.saved = file.content]

\* newMap.set(id, file) for an id that is open: the tab keeps its place
setFile(files, file) ==
  [i \in 1..Len(files) |-> IF files[i].id = file.id THEN file ELSE files[i]]

UpdateFileContent ==
  /\ \E id \in Ids, content \in Contents :
       IF id \notin openIds THEN openFiles' = openFiles
       ELSE openFiles' =
              setFile(openFiles,
                      updateFileContent(openFiles[findIndex(openFiles, id) + 1], content))
  /\ activeTabId' = activeTabId
  /\ EditorFrame

MarkFileSaved ==
  /\ \E id \in Ids :
       IF id \notin openIds THEN openFiles' = openFiles
       ELSE openFiles' =
              setFile(openFiles, markFileSaved(openFiles[findIndex(openFiles, id) + 1]))
  /\ activeTabId' = activeTabId
  /\ EditorFrame

SwitchToTab ==
  /\ \E id \in Ids :
       activeTabId' = IF id \in openIds THEN id ELSE activeTabId
  /\ openFiles' = openFiles
  /\ EditorFrame

SwitchToNextTab ==
  /\ activeTabId' =
       IF Len(openFiles) <= 1 THEN activeTabId
       ELSE openFiles[((findIndex(openFiles, activeTabId) + 1) % Len(openFiles)) + 1].id
  /\ openFiles' = openFiles
  /\ EditorFrame

\* files[prevIndex].id throws when the active tab is not among the files
\* (prevIndex is -2): nothing is assigned
SwitchToPrevTab ==
  /\ activeTabId' =
       IF Len(openFiles) <= 1 \/ findIndex(openFiles, activeTabId) = -1 THEN activeTabId
       ELSE IF findIndex(openFiles, activeTabId) = 0 THEN openFiles[Len(openFiles)].id
       ELSE openFiles[findIndex(openFiles, activeTabId)].id
  /\ openFiles' = openFiles
  /\ EditorFrame

InitEditor ==
  /\ openFiles = <<>>
  /\ activeTabId = NullId
  /\ dataObjects = <<>>
  /\ seed = NoSeed
  /\ outputs = <<>>
  /\ lists = Map(<<>>)
  /\ maxDepth = 0
  /\ depth = 0
  /\ pc = "idle"
  /\ template = <<>>
  /\ stack = <<>>
  /\ ret = NoReturn
  /\ result = <<>>
  /\ lookups = <<>>

NextEditor ==
  \/ CreateNewFile
  \/ OpenFile
  \/ CloseFile
  \/ CloseActiveTab
  \/ UpdateFileContent
  \/ MarkFileSaved
  \/ SwitchToTab
  \/ SwitchToNextTab
  \/ SwitchToPrevTab

SpecEditor == InitEditor /\ [][NextEditor]_vars

(***************************************************************************)
(* The claims                                                              *)
(***************************************************************************)
Done(t) == pc = "done" /\ template = t

ProcessTemplateFrames == {i \in 1..Len(stack) : stack[i].k = "processTemplate"}

\* the number of ", " separators in a string, plus one
RECURSIVE segments(_)
segments(str) ==
  IF Len(str) < 2 THEN 1
  ELSE IF str[1] = "," /\ str[2] = " " THEN 1 + segments(SubSeq(str, 3, Len(str)))
  ELSE segments(Tail(str))

\* C1: generate returns a string and never throws, for every template and
\* every store (missing tables, values that are not lists, lists holding
\* entries that are not strings, malformed brackets): an exception is only
\* ever in flight below a processTemplate that catches it, and a template
\* whose evaluation throws is returned as it is.
C1_GenerateNeverThrows ==
  /\ pc # "threw"
  /\ ret.kind = "thrown" =>
       \E i \in ProcessTemplateFrames : stack[i].at = "evaluating"
  /\ pc = "done" /\ lists = StoreCyclic /\ template \in {T_null, T_andNull}
       => result = template

C1_Witness ==
  /\ Done(T_andNull)
  /\ lists = StoreCyclic
  /\ result = T_andNull
  /\ Len(lookups) = 2

\* C2: generate terminates for every store and template: the nesting of
\* processTemplate calls never exceeds the depth bound, every call of generate
\* reaches its return, and on the a/b cycle generate("[a]") is not empty.
C2_GenerateTerminates ==
  /\ [](Cardinality(ProcessTemplateFrames) <= EffectiveMaxDepth + 1)
  /\ [](Done(T_a) /\ lists = StoreCyclic => Len(result) > 0)
  /\ (pc = "running") ~> (pc \in {"done", "threw"})

C2_Witness ==
  /\ Done(T_a)
  /\ lists = StoreCyclic
  /\ maxDepth = 0
  /\ result = Ref(<<"a">>)
  /\ Len(lookups) = DefaultMaxDepth

\* C3: a table reference that is a direct operand of an AND group is evaluated
\* as not optional, whether its ? is after the brackets or inside them: with
\* a = ["x"], b = ["y"] both {[a]&[b]?} and {[a]&[b?]} give exactly "xy".
C3_AndOverridesOptional ==
  /\ \A i \in 2..Len(stack) :
       /\ stack[i - 1].k = "children" /\ stack[i - 1].node.type = "and"
       /\ stack[i - 1].i < Len(stack[i - 1].node.nodes)
       /\ stack[i - 1].node.nodes[stack[i - 1].i + 1].type = "table"
       /\ stack[i].k = "evaluate" /\ stack[i].node.type = "table"
       => ~stack[i].node.isOptional
  /\ pc = "done" /\ lists = StoreMain /\ template \in {T_andTrailing, T_andInside}
       => result = <<"x", "y">>

C3_Witness ==
  /\ Done(T_andTrailing)
  /\ lists = StoreMain
  /\ parseCompleteTemplate(T_andTrailing).nodes[2].isOptional
  /\ parseCompleteTemplate(T_andInside).nodes[2].isOptional
  /\ result = <<"x", "y">>

\* C4: generate of a string wrapped in matching double or single quotes
\* returns the string exactly (it holds no quote itself): no sigil in it is
\* interpreted and no table is looked up.
C4_QuotedLiteral ==
  \A q \in QuoteChars, str \in BaseTemplates :
    Done(Quoted(q, str)) => result = str /\ lookups = <<>>

C4_Witness ==
  /\ Done(Quoted("'", T_or))
  /\ lists = StoreMain
  /\ result = T_or

\* C5: an OR group evaluates exactly one of its children and returns that
\* child's result alone: with a = ["x"], b = ["y"], {[a]|[b]} gives "x" having
\* looked up a only, or "y" having looked up b only.
C5_OrExclusive ==
  Done(T_or) /\ lists = StoreMain =>
    \/ result = <<"x">> /\ lookups = << <<"a">> >>
    \/ result = <<"y">> /\ lookups = << <<"b">> >>

C5_Witness ==
  /\ Done(T_or)
  /\ lists = StoreMain
  /\ result = <<"y">>

C7_ExcludedNeverSelected ==
  /\ \A i \in 1..Len(stack) :
       stack[i].k = "table" /\ stack[i].at = "resolving" =>
         \A e \in 1..Len(stack[i].node.exclusions) :
           ~includes(toLowerCase(stack[i].item),
                     toLowerCase(stack[i].node.exclusions[e]))
  /\ Done(T_excl) /\ lists = StoreMain => result = <<"c">>
  /\ Done(T_exclRep) /\ lists = StoreMain => result = <<"c", ",", " ", "c">>
  /\ Done(T_exclOr) /\ lists = StoreMain =>
       result \in {<<"c">>, <<"a", "x">>, <<"b", "X">>}

C7_Witness ==
  /\ template = T_exclRep
  /\ lists = StoreMain
  /\ Len(stack) = 3
  /\ stack[2].k = "table" /\ stack[2].at = "resolving"
  /\ stack[2].i = 1
  /\ stack[2].node.exclusions = << <<"x">> >>
  /\ stack[2].item = <<"c">>

\* C8: [table*{2-4}] on a table of plain entries gives between 2 and 4
\* segments separated by ", ".
C8_RepetitionRange ==
  Done(T_repRange) /\ lists = StoreMain => segments(result) \in 2..4

C8_Witness ==
  /\ Done(T_repRange)
  /\ lists = StoreMain
  /\ segments(result) = 4
  /\ Len(lookups) = 4

\* C9: for a chain of n single-entry tables, each entry a reference to the
\* next and the last one plain text, generate of a reference to the first
\* gives the final text whenever n is below the configured maxDepth.
C9_ChainResolves ==
  \A n \in 1..MaxChain :
    Done(T_chain) /\ lists = StoreChain(n) /\ n < EffectiveMaxDepth
      => result = Deep

C9_Witness ==
  /\ Done(T_chain)
  /\ lists = StoreChain(MaxChain)
  /\ MaxChain < EffectiveMaxDepth
  /\ Len(lookups) = MaxChain
  /\ result = Deep

\* C10: chained modifiers are applied left to right as written: on "TEST",
\* .lowercase.capitalize gives "Test" and .capitalize.lowercase gives "test".
C10_ModifierOrder ==
  /\ Done(T_lowerCap) /\ lists = StoreMain => result = <<"T", "e", "s", "t">>
  /\ Done(T_capLower) /\ lists = StoreMain => result = <<"t", "e", "s", "t">>

C10_Witness ==
  /\ Done(T_lowerCap)
  /\ lists = StoreMain
  /\ result = <<"T", "e", "s", "t">>

\* whether text holds a "{a}" followed by whitespace and a word character
hasArticleMarker(text) ==
  \E i \in 0..(Len(text) - 5) :
    /\ slice(text, i, i + 3) = <<"{", "a", "}">>
    /\ IsSpace(text[i + 4])
    /\ i + 4 + runLength(text, i + 3, {" "}) <= Len(text)
    /\ text[i + 4 + runLength(text, i + 3, {" "})] \in WordChars

(***************************************************************************)
(* The parser on inline expressions built from operands and separators     *)
(***************************************************************************)
\* the most operands an expression is built from
MaxOperands == 3

\* operands: plain text, a reference, a reference and a braced expression
\* holding a separator, and empty operands
Operands == {<<"a">>, <<"[", "a", "]">>, <<"[", "a", "&", "b", "]">>, <<"{", "a", "|", "b", "}">>, <<>>, <<" ">>}

Separators == {"&", "|"}

\* an expression: operands with a separator between each two
Expressions ==
  UNION {[ops : [1..n -> Operands], seps : [1..(n - 1) -> Separators]] :
           n \in 1..MaxOperands}

\* the text of the operands i..j of an expression with their separators
RECURSIVE textOf(_, _, _)
textOf(e, i, j) ==
  IF i > j THEN <<>>
  ELSE IF i = j THEN e.ops[i]
  ELSE e.ops[i] \o <<e.seps[i]>> \o textOf(e, i + 1, j)

\* the expression as it is written in a template
braced(e) == <<"{">> \o textOf(e, 1, Len(e.ops)) \o <<"}">>

InitParse ==
  /\ template \in {braced(e) : e \in Expressions}
  /\ openFiles = <<>>
  /\ activeTabId = NullId
  /\ dataObjects = <<>>
  /\ seed = NoSeed
  /\ outputs = <<>>
  /\ lists = Map(<<>>)
  /\ maxDepth = 0
  /\ depth = 0
  /\ pc = "idle"
  /\ stack = <<>>
  /\ ret = NoReturn
  /\ result = <<>>
  /\ lookups = <<>>

\* parseSigilPattern on an inline pattern: parseTemplateExpression(fullMatch)
ParseExpressionCall ==
  /\ pc = "idle"
  /\ ret' = Value(parseTemplateExpression(template))
  /\ pc' = "done"
  /\ UNCHANGED <<openFiles, activeTabId, dataObjects, seed, outputs, lists, maxDepth, depth, template, stack,
                 result, lookups>>

NextParse == ParseExpressionCall

SpecParse == InitParse /\ [][NextParse]_vars

(***************************************************************************)
(* The loader: mergeLists over the parsed documents                        *)
(***************************************************************************)
templatesKey == <<"t", "e", "m", "p", "l", "a", "t", "e", "s">>

\* {...value} of an object or an array: an object's own entries, an array's
\* entries under its indices (each a primitive)
spread(value) ==
  IF value.kind = "map" THEN value.entries
  ELSE IF value.kind = "list"
  THEN [k \in {natToString(i - 1) : i \in 1..Len(value.items)} |-> Scalar]
  ELSE <<>>

\* what the loop body leaves in merged[key] for one entry of a document
mergeEntry(merged, key, value) ==
  IF value.kind = "list"
  THEN (IF key \in DOMAIN merged /\ merged[key].kind = "list"
        THEN List(merged[key].items \o value.items)
        ELSE List(value.items))
  ELSE IF value.kind = "map"
  THEN (IF key \in DOMAIN merged /\ merged[key].kind \in {"map", "list"}
        THEN Map(value.entries @@ spread(merged[key]))
        ELSE Map(value.entries))
  ELSE value

\* the inner loop over Object.entries(data), the key templates skipped
mergeData(merged, data) ==
  LET keys == DOMAIN data \ {templatesKey}
  IN [k \in DOMAIN merged \cup keys |->
        IF k \in keys THEN mergeEntry(merged, k, data[k]) ELSE merged[k]]

RECURSIVE mergeFrom(_, _, _)
mergeFrom(merged, objects, i) ==
  IF i > Len(objects) THEN merged
  ELSE mergeFrom(mergeData(merged, objects[i]), objects, i + 1)

mergeLists(objects) == Map(mergeFrom(<<>>, objects, 1))

\* the most documents merged at once
MaxDocs == 2

ListValues == {List(<<>>), List(<< <<"a">> >>), List(<< <<"b">> >>)}

SubKeys == {<<"l">>, <<"r">>}

MapValues ==
  UNION {{Map(entries) : entries \in [keys -> ListValues \ {List(<<>>)}]} :
           keys \in SUBSET SubKeys}

DocValues == ListValues \cup MapValues \cup {Scalar}

\* a document: possibly a value under w, possibly a templates mapping
Documents ==
  UNION {[keys -> DocValues] : keys \in SUBSET {<<"w">>}}
    \cup UNION {{(templatesKey :> Map(<<>>)) @@ doc : doc \in [keys -> DocValues]} :
                  keys \in SUBSET {<<"w">>}}

InitMerge ==
  /\ openFiles = <<>>
  /\ activeTabId = NullId
  /\ dataObjects \in UNION {[1..n -> Documents] : n \in 1..MaxDocs}
  /\ seed = NoSeed
  /\ outputs = <<>>
  /\ lists = Map(<<>>)
  /\ maxDepth = 0
  /\ depth = 0
  /\ pc = "idle"
  /\ template = <<>>
  /\ stack = <<>>
  /\ ret = NoReturn
  /\ result = <<>>
  /\ lookups = <<>>

\* loadSigilData after the files are parsed: lists = mergeLists(dataObjects)
MergeListsCall ==
  /\ pc = "idle"
  /\ lists' = mergeLists(dataObjects)
  /\ pc' = "done"
  /\ UNCHANGED <<openFiles, activeTabId, dataObjects, seed, outputs, maxDepth, depth, template, stack, ret,
                 result, lookups>>

NextMerge == MergeListsCall

SpecMerge == InitMerge /\ [][NextMerge]_vars

(***************************************************************************)
(* Two engines built with the same store and the same seed                 *)
(***************************************************************************)
InitSeeded == Init /\ seed # NoSeed

\* the first engine's generate call
GenerateFirst == outputs = <<>> /\ GenerateFrom(BaseTemplates)

\* new SigilEngine(lists, options) once more, after the first engine's call
\* has returned: the same store and options, and a depth of 0
Rebuild ==
  /\ pc = "done"
  /\ outputs = <<>>
  /\ outputs' = <<[template |-> template, result |-> result]>>
  /\ depth' = 0
  /\ pc' = "idle"
  /\ template' = <<>>
  /\ ret' = NoReturn
  /\ result' = <<>>
  /\ lookups' = <<>>
  /\ UNCHANGED <<openFiles, activeTabId, dataObjects, seed, lists, maxDepth, stack>>

\* the second engine's generate call, with the template the first was given
GenerateSame == outputs # <<>> /\ GenerateFrom({outputs[1].template})

NextSeeded == GenerateFirst \/ Step \/ Rebuild \/ GenerateSame

SpecSeeded == InitSeeded /\ [][NextSeeded]_vars

\* C11: in the output of generate every "{a}" followed by whitespace and a
\* word has become "an" before a vowel (either case) and "a" otherwise, also
\* when the word comes from a table reference after the marker:
\* "{a} apple" gives "an apple", "{a} sword" gives "a sword".
C11_IndefiniteArticle ==
  /\ Done(T_articleVowel) => result = <<"a", "n", " ", "a", "p", "p", "l", "e">>
  /\ Done(T_articleConsonant) => result = <<"a", " ", "s", "w", "o", "r", "d">>
  /\ Done(T_articleUpper) => result = <<"a", "n", " ", "O", "x">>
  /\ Done(T_article) /\ lists = StoreMain =>
       result \in {<<"a", "n", " ", "a", "x">>, <<"a", " ", "b", "X">>, <<"a", " ", "c">>}
  /\ pc = "done" /\ template \in ArticleTemplates => ~hasArticleMarker(result)

C11_Witness ==
  /\ Done(T_article)
  /\ lists = StoreMain
  /\ lookups = << <<"e">> >>
  /\ result = <<"a", "n", " ", "a", "x">>

\* whether text is the decimal form of a natural number: digits, and no
\* leading zero but for "0" itself
isDecimal(text) ==
  /\ Len(text) > 0
  /\ allIn(text, Digits)
  /\ Len(text) > 1 => text[1] # "0"

\* C12: for non-negative integers N <= M, generate("{N-M}") is the decimal
\* form of an integer r with N <= r <= M.
C12_NumberRangeBounds ==
  \A n, m \in 0..MaxNumber :
    n <= m /\ Done(NumberRange(n, m)) =>
      isDecimal(result) /\ parseInt(result) \in n..m

C12_Witness ==
  /\ Done(NumberRange(MaxNumber - 2, MaxNumber))
  /\ result = natToString(MaxNumber)

\* the last item's value of the table selectWeighted was called on
lastValue == parseWeightedItem(WeightedTable[Len(WeightedTable)]).value

zeroTotal ==
  /\ ~anyNaN(parseWeightedList(WeightedTable))
  /\ sumWeights(parseWeightedList(WeightedTable)) = 0

\* C13 as stated: weighted selection never throws, and on an empty list or on
\* weights that sum to zero it returns the last item.
C13_FallbackToLast ==
  /\ pc # "threw"
  /\ pc = "done" /\ Len(WeightedTable) > 0 /\ zeroTotal => result = lastValue

\* C13, amended: weighted selection never throws and always returns a string:
\* the empty string on an empty list, the FIRST item when the weights sum to
\* zero, the last item when a weight is not a number, and otherwise the
\* value of one of the items.
C13_WeightedFallback ==
  /\ pc # "threw"
  /\ pc = "done" =>
       /\ Len(WeightedTable) = 0 => result = <<>>
       /\ Len(WeightedTable) > 0 =>
            /\ \E i \in 1..Len(WeightedTable) :
                 result = parseWeightedItem(WeightedTable[i]).value
            /\ zeroTotal => result = parseWeightedItem(WeightedTable[1]).value
            /\ anyNaN(parseWeightedList(WeightedTable)) => result = lastValue

C13_Witness ==
  /\ pc = "done"
  /\ WeightedTable = <<<<"q", " ", "^", "0">>, <<"s", " ", "^", "0">>>>
  /\ result = <<"q">>

\* C14: a table reference carrying the markov modifier is resolved from the
\* whole filtered list by the Markov generator, once per repetition; it is
\* never resolved by selecting one list entry and passing it through the
\* modifier chain.
C14_MarkovHandledSpecially ==
  \A i \in 1..Len(stack) :
    stack[i].k = "table" /\ (\E j \in 1..Len(stack[i].node.modifiers) : stack[i].node.modifiers[j] = markov)
      => stack[i].at # "resolving"

\* C15: the exclusion clause, the repetition clause and the optional marker
\* are recognised in whatever order they are written: [e*2!x] is the
\* reference [e!x*2] (path e, exclusions [x], repetition 2) and gives what
\* that reference gives.
C15_ClauseOrderFree ==
  /\ \A i \in 1..Len(stack) :
       template = T_repExcl /\ stack[i].k = "evaluate" /\ stack[i].node.type = "table"
         => stack[i].node = parseTableReference(<<"e", "!", "x", "*", "2">>, <<>>)
  /\ Done(T_repExcl) /\ lists = StoreMain => result = <<"c", ",", " ", "c">>

\* C16: a modifier written after an exclusion clause is applied and the
\* exclusion still filters: on e = [ax, bX ^2, c] the reference
\* [e!x.capitalize] yields the capitalized entry that does not contain x.
C16_ModifierAfterExclusion ==
  Done(T_exclMod) /\ lists = StoreMain => result = <<"C">>

\* C17: with the seed option set, two engines built with the same store and
\* the same seed return the same output for the same generate call.
C17_SeedDeterministic ==
  pc = "done" /\ outputs # <<>> => result = outputs[1].result

\* the dotted paths at which the documents hold lists
MergePaths == {<<"w">>, <<"w", ".", "l">>, <<"w", ".", "r">>}

definesList(data, path) == getNestedValue(Map(data), path).kind = "list"

RECURSIVE entriesFrom(_, _, _)
entriesFrom(objects, path, i) ==
  IF i > Len(objects) THEN <<>>
  ELSE (IF definesList(objects[i], path)
        THEN getNestedValue(Map(objects[i]), path).items
        ELSE <<>>) \o entriesFrom(objects, path, i + 1)

\* every document holds, at the top-level key of the path, the same kind of
\* value or nothing
sameShape(path) ==
  \A i, j \in 1..Len(dataObjects) :
     <<path[1]>> \in DOMAIN dataObjects[i] /\ <<path[1]>> \in DOMAIN dataObjects[j]
       => dataObjects[i][<<path[1]>>].kind = dataObjects[j][<<path[1]>>].kind

\* C18: after the merge, a list at the top level or under a same-named
\* mapping holds the entries of every document that defines it, in
\* document order.
C18_MergeCombinesLists ==
  pc = "done" /\ Len(dataObjects) > 0 =>
    \A path \in MergePaths :
       sameShape(path) /\ (\E i \in 1..Len(dataObjects) : definesList(dataObjects[i], path))
         => getNestedValue(lists, path) = List(entriesFrom(dataObjects, path, 1))

\* C19: no step of a generate call changes the table store, whatever the
\* template and whatever happens during the evaluation.
C19_StoreUnchanged == [][lists' = lists]_vars

\* a generate call that filtered a weighted table by an exclusion has
\* returned, and the store is the one the engine was built with
C19_Witness ==
  /\ pc = "done"
  /\ template = T_exclRep
  /\ lists = StoreMain
  /\ Len(lookups) > 0

\* the processTemplate calls that have parsed their argument and are
\* evaluating it
parsing == {i \in ProcessTemplateFrames : stack[i].at = "evaluating"}

\* those of them that re-resolve a selected table value
reResolutions == {i \in parsing : i > 1}

\* processTemplate has just been called on a selected table value
selectedValueEntered ==
  Running /\ Len(stack) > 1 /\ Top.k = "processTemplate" /\ Top.at = "entry"

\* C20 as claimed: the depth counter counts the re-resolutions of selected
\* values in progress and not the top-level template, so a selected value
\* is returned unresolved only when maxDepth re-resolutions are in progress.
C20_DepthCountsReResolutions ==
  /\ depth = Cardinality(reResolutions)
  /\ selectedValueEntered /\ depth >= EffectiveMaxDepth
       => Cardinality(reResolutions) = EffectiveMaxDepth

\* C20: the depth counter is incremented once for every processTemplate
\* call that parses its argument, the top-level template's included, so with
\* maxDepth = N (N >= 1) a selected value is returned unresolved exactly
\* when the top-level call and N - 1 re-resolutions are in progress.
C20_DepthCountsEveryParse ==
  [][/\ depth' = Cardinality(parsing)'
     /\ selectedValueEntered =>
          (stack' = Pop /\ ret' = Value(Top.template)
             <=> Cardinality(reResolutions) = EffectiveMaxDepth - 1)]_vars

\* a value selected under maxDepth = 2 is about to be returned unresolved
C20_Witness ==
  /\ selectedValueEntered
  /\ maxDepth = 2
  /\ depth = 2
  /\ Cardinality(reResolutions) = 1

\* C21 as claimed: within one generate call the depth counter starts at
\* zero and no step of the evaluation decreases it.
C21_DepthMonotonic ==
  [][/\ pc = "idle" /\ pc' = "running" => depth' = 0
     /\ pc = "running" /\ pc' = "running" => depth' >= depth]_vars

\* C21: within one generate call the depth counter starts at zero and never
\* goes below it; the only step that decreases it is the return of a
\* processTemplate call that had incremented it (normally or through its
\* catch block), and that step decreases it by exactly one.
C21_DepthDecreasesOnReturnOnly ==
  [][/\ pc = "idle" /\ pc' = "running" => depth' = 0
     /\ pc = "running" =>
          /\ depth' >= 0
          /\ depth' < depth =>
               /\ depth' = depth - 1
               /\ Top.k = "processTemplate" /\ Top.at = "evaluating"
               /\ stack' = Pop]_vars

\* a re-resolution two levels down has returned and the counter has come
\* back to 1 while the top-level template is still being evaluated
C21_Witness ==
  /\ pc = "running"
  /\ depth = 1
  /\ Len(lookups) >= 2
  /\ Len(stack) > 1
  /\ ret.kind = "value"
  /\ Top.k = "table" /\ Top.at = "resolving" /\ Top.item = Ref(ChainName(2))

\* C22: when processTemplate is called on a selected value while the depth
\* is at or beyond the maximum, the value is returned as it was selected,
\* nothing is thrown, the depth is left as it is, and the loop of the
\* enclosing table reference goes on with that value.
C22_ExhaustionReturnsValue ==
  [][selectedValueEntered /\ depth >= EffectiveMaxDepth =>
       /\ ret' = Value(Top.template)
       /\ depth' = depth
       /\ pc' = "running"
       /\ stack' = Pop
       /\ stack[Len(stack) - 1].k = "table"
       /\ stack[Len(stack) - 1].at = "resolving"
       /\ stack[Len(stack) - 1].item = Top.template]_vars

\* in the cycle a = ["[b]"], b = ["[a]"] a reference has come back
\* unresolved to the table loop that selected it, at the maximum depth
C22_Witness ==
  /\ Running
  /\ lists = StoreCyclic
  /\ depth = EffectiveMaxDepth
  /\ Top.k = "table" /\ Top.at = "resolving"
  /\ Top.item \in {Ref(<<"a">>), Ref(<<"b">>)}
  /\ ret = Value(Top.item)

\* C23: the AND override reaches only the table references that are direct
\* children of the And node.  In {[a]&{[b]|[t?]}} and {[a]&([t?])} the
\* reference [a] is always evaluated and the reference [t?] is evaluated
\* with its optional marker, so the result is a's value followed by b's
\* value, t's value or nothing.
C23_OverrideDirectChildrenOnly ==
  /\ template \in NestedOptionalTemplates =>
       \A i \in 1..Len(stack) :
          (stack[i].k = "evaluate" /\ stack[i].node.type = "table")
            => stack[i].node.isOptional = (stack[i].node.tablePath = <<"t">>)
  /\ Done(T_andOrOptional) /\ lists = StoreMain =>
       result \in {<<"x">>, <<"x", "y">>, <<"x", "T", "E", "S", "T">>}
  /\ Done(T_andGroupOptional) /\ lists = StoreMain =>
       result \in {<<"x">>, <<"x", "T", "E", "S", "T">>}

\* {[a]&{[b]|[t?]}} has evaluated to a's value alone
C23_Witness ==
  /\ Done(T_andOrOptional)
  /\ lists = StoreMain
  /\ result = <<"x">>
  /\ lookups = << <<"a">> >>

\* C24: for an optional reference with a repetition the coin is flipped
\* once, before any selection: [p*3?] on p = [x, y] yields the empty
\* string without a lookup, or three selections joined by ", ".
C24_OptionalCoinOnce ==
  Done(T_repOptional) /\ lists = StoreMain =>
    \/ result = <<>> /\ lookups = <<>>
    \/ /\ Len(lookups) = 3
       /\ \E s1, s2, s3 \in {<<"x">>, <<"y">>} :
            result = join(<<s1, s2, s3>>, <<",", " ">>)

\* the coin of [p*3?] fell on the empty side: nothing was looked up
C24_Witness ==
  /\ Done(T_repOptional)
  /\ lists = StoreMain
  /\ result = <<>>
  /\ lookups = <<>>

operandAt(text, i) ==
  IF \E op \in Operands \ {<<>>} :
        i + Len(op) <= Len(text) /\ SubSeq(text, i + 1, i + Len(op)) = op
  THEN CHOOSE op \in Operands \ {<<>>} :
         i + Len(op) <= Len(text) /\ SubSeq(text, i + 1, i + Len(op)) = op
  ELSE <<>>

\* the expression a text was written from, read from offset i on
RECURSIVE writtenFrom(_, _)
writtenFrom(text, i) ==
  IF i + Len(operandAt(text, i)) >= Len(text)
  THEN [ops |-> <<operandAt(text, i)>>, seps |-> <<>>]
  ELSE [ops |-> <<operandAt(text, i)>>
                  \o writtenFrom(text, i + Len(operandAt(text, i)) + 1).ops,
        seps |-> <<text[i + Len(operandAt(text, i)) + 1]>>
                   \o writtenFrom(text, i + Len(operandAt(text, i)) + 1).seps]

\* the expression the template under parse was written from
written == writtenFrom(SubSeq(template, 2, Len(template) - 1), 0)

\* the operands at which a part between two & begins
partStarts(e) == {i \in 1..Len(e.ops) : i = 1 \/ e.seps[i - 1] = "&"}

\* the last operand of the part that begins at operand i
partEnd(e, i) ==
  CHOOSE j \in i..Len(e.ops) :
    /\ \A k \in i..(j - 1) : e.seps[k] = "|"
    /\ j = Len(e.ops) \/ e.seps[j] = "&"

\* the parts between two & that are not empty, in order
andPartsOf(e) ==
  SelectSeq([i \in 1..Len(e.ops) |-> i],
            LAMBDA i : i \in partStarts(e) /\ trim(textOf(e, i, partEnd(e, i))) # <<>>)

\* the number of operands of the part i..j that are not empty
operandsIn(e, i, j) == Cardinality({k \in i..j : trim(e.ops[k]) # <<>>})

\* a node is the Or of the operands i..j when they are two or more
orOfOperands(node, e, i, j) ==
  operandsIn(e, i, j) >= 2 =>
    node.type = "or" /\ Len(node.nodes) = operandsIn(e, i, j)

\* C26: an inline expression is split at bracket depth zero only, first on
\* & and, when that gives a single part, on |: a separator inside an
\* operand never splits.  With two or more parts between & the node is an
\* And of these parts, and each part of two or more operands is the Or of
\* its operands; without & the node is the Or of the operands.
C26_SplitsAtTopLevelOnly ==
  pc = "done" =>
    \A e \in {written} :
       braced(e) = template =>
         IF Len(andPartsOf(e)) >= 2
         THEN /\ ret.v.type = "and"
              /\ Len(ret.v.nodes) = Len(andPartsOf(e))
              /\ \A k \in 1..Len(andPartsOf(e)) :
                   orOfOperands(ret.v.nodes[k], e, andPartsOf(e)[k],
                                partEnd(e, andPartsOf(e)[k]))
         ELSE partStarts(e) = {1} => orOfOperands(ret.v, e, 1, Len(e.ops))

\* every And node and every Or node of a tree has at least two children
RECURSIVE wellFormed(_)
wellFormed(node) ==
  IF node.type \in {"and", "or"}
  THEN /\ Len(node.nodes) >= 2
       /\ \A i \in 1..Len(node.nodes) : wellFormed(node.nodes[i])
  ELSE IF node.type = "group" THEN wellFormed(node.node)
  ELSE TRUE

\* C27: the empty parts of a split are dropped and fewer than two parts
\* make no And and no Or: every And node and every Or node of the tree has
\* at least two children, and a reference followed by nothing but empty
\* operands and one kind of separator, as in {[a]&}, parses as the reference.
C27_NoSmallGroups ==
  pc = "done" =>
    /\ wellFormed(ret.v)
    /\ \A e \in {written} :
         /\ e.ops[1] = <<"[", "a", "]">>
         /\ \A i \in 2..Len(e.ops) : trim(e.ops[i]) = <<>>
         /\ \A i, j \in 1..Len(e.seps) : e.seps[i] = e.seps[j]
         => /\ ret.v.type = "table"
            /\ ret.v.tablePath = <<"a">>
            /\ ret.v.exclusions = <<>>
            /\ ret.v.modifiers = <<>>
            /\ ~ret.v.isOptional

\* {[a]&} has been parsed
C27_Witness ==
  /\ pc = "done"
  /\ template = <<"{", "[", "a", "]", "&", "}">>
  /\ ret.kind = "value"
  /\ ret.v.type = "table"

\* C28: the dirty flag of a tab marks unsaved changes: isDirty is true
\* exactly when the content of the tab differs from the content it had when
\* it was opened or last saved.
C28_DirtyMeansUnsaved ==
  \A i \in 1..Len(openFiles) :
     openFiles[i].isDirty <=> openFiles[i].content # openFiles[i].saved

\* C29: activeTabId is null exactly when no file is open, and otherwise is
\* the id of an open file.
C29_ActiveTabIsOpen ==
  /\ activeTabId = NullId <=> Len(openFiles) = 0
  /\ activeTabId # NullId => activeTabId \in openIds

\* the active tab was closed while another stayed open, and that one is active
C29_Witness ==
  /\ Len(openFiles) = 1
  /\ activeTabId = openFiles[1].id
  /\ activeTabId # 1
  /\ openFiles[1].isDirty

\* C30: during a generate call 0 <= depth <= the effective maximum and depth is
\* the number of processTemplate calls that are inside their try block, so it
\* depends on the nesting only; outside a call, and when generate has returned
\* on the normal or on the caught-exception path, depth is 0
C30_DepthBalanced ==
  /\ depth >= 0 /\ depth <= EffectiveMaxDepth
  /\ pc = "running" => depth = Cardinality(parsing)
  /\ pc \in {"idle", "done"} => depth = 0

\* an exception thrown at depth 2 was caught there and the caller, at depth 1,
\* has received the template of the call that threw
C30_Witness ==
  /\ pc = "running" /\ lists = StoreCyclic /\ template = T_nestedNull
  /\ depth = 1
  /\ Top.k = "table" /\ Top.at = "resolving"
  /\ ret = Value(T_null)

====
